---- MODULE Spec2Model ----
(***************************************************************************)
(* Model of AggregationEfficiency<FieldT> (Wasatch, PBE/Precipitation).    *)
(*                                                                         *)
(* The expression holds a fixed configuration (tags, l_, growthModel_),    *)
(* pointers to the bound input fields (abscissae_, g0_, eps_, rho_) and    *)
(* writes nEnv*nEnv result fields in evaluate().  A field is a function    *)
(* from the points of a patch to a double.  `double` is modelled as an     *)
(* IEEE-754 binary format (signed zero, subnormals, infinities, NaN,       *)
(* round-to-nearest-even) of reduced precision Prec and exponent range     *)
(* EMax; a finite magnitude is held as an integer number of units, the     *)
(* unit being the smallest positive subnormal 2^(-FracBits).               *)
(***************************************************************************)
EXTENDS Integers, Sequences, FiniteSets, TLC

\* ------------------------------------------------------------- bounds
Prec == 3        \* significand bits of the modelled double
EMax == 4        \* largest exponent of the modelled double
NPoints == 2     \* points of a patch (a field has one value per point)
MaxN == 2        \* largest number of abscissae (size classes)

\* --------------------------------------------------- double arithmetic
FracBits == EMax + Prec - 2          \* emin = 1 - emax, unit = 2^(emin-Prec+1)
MaxShift == 2 * EMax - 1
MaxMag == (2^Prec - 1) * 2^MaxShift  \* largest finite magnitude, in units

NaN == [c |-> "nan", s |-> 0, m |-> 0]
Inf(s) == [c |-> "inf", s |-> s, m |-> 0]
Fin(s, m) == [c |-> "fin", s |-> s, m |-> m]

\* the quotient n/d rounded to an integer, ties to even
RoundHalfEven(n, d) ==
  LET q == n \div d
      r == n % d
  IN  IF 2 * r < d THEN q
      ELSE IF 2 * r > d THEN q + 1
      ELSE q + (q % 2)

\* exponent of the binade of n/d units: least e with n/d < 2^(Prec+e)
RECURSIVE Shift(_, _, _)
Shift(n, d, e) ==
  IF e > MaxShift \/ n < (2^(Prec + e)) * d THEN e ELSE Shift(n, d, e + 1)

\* the exact magnitude n/d units with sign s, rounded to the format
Round(s, n, d) ==
  LET e == Shift(n, d, 0)
  IN  IF e > MaxShift THEN Inf(s)
      ELSE LET mag == RoundHalfEven(n, d * 2^e) * 2^e
           IN  IF mag > MaxMag THEN Inf(s) ELSE Fin(s, mag)

Xor(a, b) == (a + b) % 2
IsZero(a) == a.c = "fin" /\ a.m = 0
Signed(a) == IF a.s = 1 THEN 0 - a.m ELSE a.m

\* a * b
FMul(a, b) ==
  IF a.c = "nan" \/ b.c = "nan" THEN NaN
  ELSE IF a.c = "inf" \/ b.c = "inf"
       THEN IF IsZero(a) \/ IsZero(b) THEN NaN ELSE Inf(Xor(a.s, b.s))
  ELSE Round(Xor(a.s, b.s), a.m * b.m, 2^FracBits)

\* a / b
FDiv(a, b) ==
  IF a.c = "nan" \/ b.c = "nan" THEN NaN
  ELSE IF a.c = "inf" THEN (IF b.c = "inf" THEN NaN ELSE Inf(Xor(a.s, b.s)))
  ELSE IF b.c = "inf" THEN Fin(Xor(a.s, b.s), 0)
  ELSE IF b.m = 0 THEN (IF a.m = 0 THEN NaN ELSE Inf(Xor(a.s, b.s)))
  ELSE Round(Xor(a.s, b.s), a.m * 2^FracBits, b.m)

\* a + b
FAdd(a, b) ==
  IF a.c = "nan" \/ b.c = "nan" THEN NaN
  ELSE IF a.c = "inf"
       THEN (IF b.c = "inf" /\ b.s # a.s THEN NaN ELSE a)
  ELSE IF b.c = "inf" THEN b
  ELSE LET t == Signed(a) + Signed(b)
       IN  IF t = 0 THEN Fin(IF a.s = 1 /\ b.s = 1 THEN 1 ELSE 0, 0)
           ELSE IF t < 0 THEN Round(1, 0 - t, 1) ELSE Round(0, t, 1)

\* a > b
FGt(a, b) ==
  IF a.c = "nan" \/ b.c = "nan" THEN FALSE
  ELSE IF a.c = "inf" THEN a.s = 0 /\ ~(b.c = "inf" /\ b.s = 0)
  ELSE IF b.c = "inf" THEN b.s = 1
  ELSE Signed(a) > Signed(b)

\* the literals of evaluate(): 0.0 and 1.0
Zero == Fin(0, 0)
One == Fin(0, 2^FracBits)
Half == Fin(0, 2^(FracBits - 1))
MinusOne == Fin(1, 2^FracBits)

\* ------------------------------------------------ fields, tags, handles
Points == 1..NPoints

\* Expr::Tag values held by the expression
growthCoefTag_ == [name |-> "growth", ix |-> 0]
dissipationTag_ == [name |-> "dissipation", ix |-> 0]
densityTag_ == [name |-> "density", ix |-> 0]
AbscissaTag(m) == [name |-> "abscissa", ix |-> m]
AbscissaeTags(n) == [m \in 1..n |-> AbscissaTag(m)]
Tags == {growthCoefTag_, dissipationTag_, densityTag_} \cup {AbscissaTag(m) : m \in 1..MaxN}

\* the field manager lists the host may pass to bind_fields
FieldManagers == {"A", "B"}

\* a pointer that was never assigned
NullField == [fm |-> "none", tag |-> growthCoefTag_]

\* the recognised growth models and one string that is none of them
RecognisedModels == {"BULK_DIFFUSION", "MONOSURFACE", "CONSTANT", "KINETIC"}
GrowthModels == RecognisedModels \cup {"OTHER"}

\* The values of all input fields at one point.  Nominal is a regular
\* point; every other cell is an upstream pathology.
Cell(g, rho, eps, r) == [g |-> g, rho |-> rho, eps |-> eps, r |-> r]
NominalRadii == [m \in 1..MaxN |-> Round(0, m * 2^(FracBits - 1), 1)]
ZeroRadii == [m \in 1..MaxN |-> Zero]
Nominal == Cell(One, One, One, NominalRadii)
Cells == { Nominal,
           Cell(One, Zero, One, NominalRadii),
           Cell(One, MinusOne, One, NominalRadii),
           Cell(One, One, Zero, NominalRadii),
           Cell(One, One, MinusOne, NominalRadii),
           Cell(MinusOne, One, One, NominalRadii),
           Cell(One, One, One, ZeroRadii),
           Cell(MinusOne, Zero, Zero, ZeroRadii) }

\* the patches of the host: points do not interact, so a patch has at most
\* one point that is not nominal
Patches ==
  {patch \in [Points -> Cells] :
     Cardinality({p \in Points : patch[p] # Nominal}) <= 1}
NominalPatch == [p \in Points |-> Nominal]

\* the fields of one field manager, from the cells of its patch
FieldsOf(patch) ==
  [t \in Tags |->
     [p \in Points |->
        IF t.name = "growth" THEN patch[p].g
        ELSE IF t.name = "density" THEN patch[p].rho
        ELSE IF t.name = "dissipation" THEN patch[p].eps
        ELSE patch[p].r[t.ix]]]

\* the length parameters a builder may pass
LengthParams == {One, Fin(0, 2^(FracBits + 1))}

\* what an output field may hold before the first evaluate()
GarbageVals == {Zero, MinusOne}

VARIABLES
  abscissaeTagList_,  \* tags of the abscissae, fixed at construction
  l_,                 \* length parameter, fixed at construction
  growthModel_,       \* growth model string, fixed at construction
  abscissae_,         \* FieldVec: pointers to the bound abscissa fields
  g0_, eps_, rho_,    \* pointers to the bound growth, dissipation, density
  fml,                \* field manager -> tag -> field: the input fields
  results,            \* get_value_vec(): the output fields, index idx+1
  writes,             \* the writes of the latest evaluate(), in order
  lastCall,           \* the latest call made on the expression
  lastFml,            \* the argument of the latest bind_fields()
  rebound,            \* bind_fields() was called on bound pointers
  probe               \* one pair at two points, statement by statement

vars == <<abscissaeTagList_, l_, growthModel_, abscissae_, g0_, eps_, rho_,
          fml, results, writes, lastCall, lastFml, rebound, probe>>

\* the probe while the expression itself is modelled
ProbeOff == [pc |-> "off"]

config == <<abscissaeTagList_, l_, growthModel_>>
handles == <<abscissae_, g0_, eps_, rho_>>

\* construction: configuration only, no field access; the host has
\* allocated nEnv^2 result fields and filled its field managers
Init ==
  /\ \E n \in 1..MaxN :
       /\ abscissaeTagList_ = AbscissaeTags(n)
       /\ \E v \in GarbageVals : results = [k \in 1..(n * n) |-> [p \in Points |-> v]]
  /\ l_ \in LengthParams
  /\ growthModel_ \in GrowthModels
  /\ abscissae_ = << >>
  /\ g0_ = NullField
  /\ eps_ = NullField
  /\ rho_ = NullField
  /\ \E patch \in Patches :
       fml = [f \in FieldManagers |->
                IF f = "A" THEN FieldsOf(patch) ELSE FieldsOf(NominalPatch)]
  /\ writes = << >>
  /\ lastCall = "construct"
  /\ lastFml = "none"
  /\ rebound = FALSE
  /\ probe = ProbeOff

\* &volfm.field_ref(tag): the address of a field of field manager f
field_ref(f, tag) == [fm |-> f, tag |-> tag]
\* *ptr
Deref(h) == fml[h.fm][h.tag]

\* the abscissae_ vector after the loop of push_back calls
RECURSIVE PushAll(_, _, _)
PushAll(vec, f, m) ==
  IF m > Len(abscissaeTagList_) THEN vec
  ELSE PushAll(Append(vec, field_ref(f, abscissaeTagList_[m])), f, m + 1)

\* faulty variant of Clear: the vector is not emptied before the push_backs
ClearMissing(vec) == vec

\* abscissae_.clear()
Clear(vec) == << >>

\* faulty variant of bind_fields: g0_ is resolved only while it is unset
bind_fields_keep_g0(f) ==
  /\ abscissae_' = PushAll(Clear(abscissae_), f, 1)
  /\ g0_' = (IF g0_ = NullField THEN field_ref(f, growthCoefTag_) ELSE g0_)
  /\ eps_' = field_ref(f, dissipationTag_)
  /\ rho_' = field_ref(f, densityTag_)
  /\ lastCall' = "bind_fields"
  /\ lastFml' = f
  /\ rebound' = (rebound \/ lastFml # "none")
  /\ UNCHANGED <<config, fml, results, writes, probe>>

bind_fields(f) ==
  /\ abscissae_' = PushAll(Clear(abscissae_), f, 1)
  /\ g0_' = field_ref(f, growthCoefTag_)
  /\ eps_' = field_ref(f, dissipationTag_)
  /\ rho_' = field_ref(f, densityTag_)
  /\ lastCall' = "bind_fields"
  /\ lastFml' = f
  /\ rebound' = (rebound \/ lastFml # "none")
  /\ UNCHANGED <<config, fml, results, writes, probe>>

BindFields == \E f \in FieldManagers : bind_fields(f)

\* ------------------------------------------------------------ evaluate
\* ri * rho * (ri + rj) * (ri + rj) * eps, multiplied left to right
BulkDivisor(r, rho, ri, rj, eps) ==
  FMul(FMul(FMul(FMul(r, rho), FAdd(ri, rj)), FAdd(ri, rj)), eps)

\* faulty variant of ConstDivisor: the second factor is ri + ri
ConstDivisorTypo(rho, ri, rj, eps) ==
  FMul(FMul(FMul(rho, FAdd(ri, rj)), FAdd(ri, ri)), eps)

\* rho * (ri + rj) * (ri + rj) * eps, multiplied left to right
ConstDivisor(rho, ri, rj, eps) ==
  FMul(FMul(FMul(rho, FAdd(ri, rj)), FAdd(ri, rj)), eps)

\* faulty variant of BulkDiffusionCandidate: the guard is an "or"
BulkDiffusionCandidateOrGuard(l, g, rho, eps, ri, rj) ==
  IF FGt(rho, Zero) \/ FGt(eps, Zero)
  THEN IF FGt(ri, rj)
       THEN FDiv(FMul(l, g), BulkDivisor(ri, rho, ri, rj, eps))
       ELSE FDiv(FMul(l, g), BulkDivisor(rj, rho, ri, rj, eps))
  ELSE Zero

\* the first assignment to *tmp in the BULK_DIFFUSION branch, at one point
BulkDiffusionCandidate(l, g, rho, eps, ri, rj) ==
  IF FGt(rho, Zero) /\ FGt(eps, Zero)
  THEN IF FGt(ri, rj)
       THEN FDiv(FMul(l, g), BulkDivisor(ri, rho, ri, rj, eps))
       ELSE FDiv(FMul(l, g), BulkDivisor(rj, rho, ri, rj, eps))
  ELSE Zero

\* faulty variant of MonosurfaceCandidate: always divides by ri
MonosurfaceCandidateNoBranch(l, g, rho, eps, ri, rj) ==
  IF FGt(rho, Zero) /\ FGt(eps, Zero)
  THEN FDiv(FMul(l, g), BulkDivisor(ri, rho, ri, rj, eps))
  ELSE Zero

\* the first assignment to *tmp in the MONOSURFACE branch, at one point
MonosurfaceCandidate(l, g, rho, eps, ri, rj) ==
  IF FGt(rho, Zero) /\ FGt(eps, Zero)
  THEN IF FGt(ri, rj)
       THEN FDiv(FMul(l, g), BulkDivisor(ri, rho, ri, rj, eps))
       ELSE FDiv(FMul(l, g), BulkDivisor(rj, rho, ri, rj, eps))
  ELSE Zero

\* faulty variant of ConstantCandidate: l_ divided by the growth rate
ConstantCandidateDividesGrowth(l, g, rho, eps, ri, rj) ==
  IF FGt(rho, Zero) /\ FGt(eps, Zero)
  THEN FDiv(FDiv(l, g), ConstDivisor(rho, ri, rj, eps))
  ELSE Zero

\* the first assignment to *tmp in the CONSTANT / KINETIC branch, at one point
ConstantCandidate(l, g, rho, eps, ri, rj) ==
  IF FGt(rho, Zero) /\ FGt(eps, Zero)
  THEN FDiv(FMul(l, g), ConstDivisor(rho, ri, rj, eps))
  ELSE Zero

\* faulty variant of Branch: the last branch is a plain else
BranchElseConstant(model) ==
  IF model = "BULK_DIFFUSION" THEN 1
  ELSE IF model = "MONOSURFACE" THEN 2
  ELSE 3

\* the if / else-if chain on growthModel_: the branch taken, 0 for none
Branch(model) ==
  IF model = "BULK_DIFFUSION" THEN 1
  ELSE IF model = "MONOSURFACE" THEN 2
  ELSE IF model = "CONSTANT" \/ model = "KINETIC" THEN 3
  ELSE 0

Candidate(b, l, g, rho, eps, ri, rj) ==
  IF b = 1 THEN BulkDiffusionCandidate(l, g, rho, eps, ri, rj)
  ELSE IF b = 2 THEN MonosurfaceCandidate(l, g, rho, eps, ri, rj)
  ELSE ConstantCandidate(l, g, rho, eps, ri, rj)

\* faulty variant of Clamp: the clamp is left out
ClampMissing(x) == x

\* *tmp <<= cond( *tmp > 0.0, *tmp )( 0.0 ), at one point
Clamp(x) == IF FGt(x, Zero) THEN x ELSE Zero

\* *tmp / (1.0 + *tmp), at one point
Saturate(x) == FDiv(x, FAdd(One, x))

\* faulty variant of LoopBody: results[idx] without the increment
LoopBodyNoIncrement(b, st, i, j) ==
  LET ri == Deref(abscissae_[i + 1])
      rj == Deref(abscissae_[j + 1])
      tmp1 == [p \in Points |->
                 Candidate(b, l_, Deref(g0_)[p], Deref(rho_)[p], Deref(eps_)[p],
                           ri[p], rj[p])]
      tmp2 == [p \in Points |-> Clamp(tmp1[p])]
      out == [p \in Points |-> Saturate(tmp2[p])]
  IN  [results |-> IF st.idx < Len(st.results)
                   THEN [st.results EXCEPT ![st.idx + 1] = out]
                   ELSE st.results,
       idx |-> st.idx,
       writes |-> Append(st.writes, [idx |-> st.idx, i |-> i, j |-> j])]

\* one pass of the loop body for the pair (i, j), 0-based as in the code;
\* st holds the result fields, idx and the writes made so far
LoopBody(b, st, i, j) ==
  LET ri == Deref(abscissae_[i + 1])
      rj == Deref(abscissae_[j + 1])
      tmp1 == [p \in Points |->
                 Candidate(b, l_, Deref(g0_)[p], Deref(rho_)[p], Deref(eps_)[p],
                           ri[p], rj[p])]
      tmp2 == [p \in Points |-> Clamp(tmp1[p])]
      out == [p \in Points |-> Saturate(tmp2[p])]
  IN  [results |-> IF st.idx < Len(st.results)
                   THEN [st.results EXCEPT ![st.idx + 1] = out]
                   ELSE st.results,
       idx |-> st.idx + 1,
       writes |-> Append(st.writes, [idx |-> st.idx, i |-> i, j |-> j])]

\* for (int j = 0; j < nEnv; j++)
RECURSIVE InnerLoop(_, _, _, _, _)
InnerLoop(b, st, nEnv, i, j) ==
  IF j < nEnv THEN InnerLoop(b, LoopBody(b, st, i, j), nEnv, i, j + 1) ELSE st

\* for (int i = 0; i < nEnv; i++)
RECURSIVE OuterLoop(_, _, _, _)
OuterLoop(b, st, nEnv, i) ==
  IF i < nEnv THEN OuterLoop(b, InnerLoop(b, st, nEnv, i, 0), nEnv, i + 1) ELSE st

\* the state of the result fields, idx and the writes when evaluate() returns
EvaluateResult ==
  LET nEnv == Len(abscissae_)
      st0 == [results |-> results, idx |-> 0, writes |-> << >>]
      b == Branch(growthModel_)
  IN  IF b = 0 THEN st0 ELSE OuterLoop(b, st0, nEnv, 0)

\* lastCall after evaluate(): the first since bind_fields(), or a repeat
EvaluateCalls == {"evaluate", "evaluate_again"}

\* the host calls evaluate() only after bind_fields()
evaluate ==
  /\ lastFml # "none"
  /\ LET st == EvaluateResult
     IN  results' = st.results /\ writes' = st.writes
  /\ lastCall' = (IF lastCall \in EvaluateCalls THEN "evaluate_again" ELSE "evaluate")
  /\ UNCHANGED <<config, handles, fml, lastFml, rebound, probe>>

Next == BindFields \/ evaluate

Spec == Init /\ [][Next]_vars


\* ------------------------------------------ the loop body, point by point
\* One pair (ri, rj) at two points that share density, dissipation and
\* radii and differ in the growth rate g[1] < g[2]; the three statements
\* of the loop body are applied one at a time, so that the raw and the
\* clamped candidate are part of the state.
Tiny == Fin(0, 1)
Two == Fin(0, 2^(FracBits + 1))
MaxFinite == Fin(0, MaxMag)
Neg(x) == [x EXCEPT !.s = 1 - x.s]

ProbeLengths == {MinusOne, Zero, One, Two}
ProbeGrowths == {Neg(MaxFinite), MinusOne, Zero, Tiny, Half, One, MaxFinite}
ProbeDensities == {Tiny, One}
ProbeDissipations == {One, Two}
ProbeRadii == {MinusOne, Zero, Tiny, Half, One, Two}

InitPoint ==
  /\ abscissaeTagList_ = AbscissaeTags(1)
  /\ results = <<[p \in Points |-> Zero]>>
  /\ l_ = One
  /\ growthModel_ = "CONSTANT"
  /\ abscissae_ = << >>
  /\ g0_ = NullField
  /\ eps_ = NullField
  /\ rho_ = NullField
  /\ fml = << >>
  /\ writes = << >>
  /\ lastCall = "construct"
  /\ lastFml = "none"
  /\ rebound = FALSE
  /\ \E model \in RecognisedModels, l \in ProbeLengths,
        g1 \in ProbeGrowths, g2 \in ProbeGrowths,
        rho \in ProbeDensities, eps \in ProbeDissipations,
        ri \in ProbeRadii, rj \in ProbeRadii :
       /\ FGt(g2, g1)
       /\ probe = [pc |-> "inputs", model |-> model, l |-> l, g |-> <<g1, g2>>,
                   rho |-> rho, eps |-> eps, ri |-> ri, rj |-> rj,
                   tmp |-> <<Zero, Zero>>, out |-> <<Zero, Zero>>]

\* *tmp <<= cond( *rho_ > 0.0 && *eps_ > 0.0, ... )( 0.0 )
PointCandidate ==
  /\ probe.pc = "inputs"
  /\ probe' = [probe EXCEPT
                 !.pc = "candidate",
                 !.tmp = [k \in 1..2 |->
                            Candidate(Branch(probe.model), probe.l, probe.g[k],
                                      probe.rho, probe.eps, probe.ri, probe.rj)]]
  /\ UNCHANGED <<config, handles, fml, results, writes, lastCall, lastFml, rebound>>

\* *tmp <<= cond( *tmp > 0.0, *tmp )( 0.0 )
PointClamp ==
  /\ probe.pc = "candidate"
  /\ probe' = [probe EXCEPT
                 !.pc = "clamped",
                 !.tmp = [k \in 1..2 |-> Clamp(probe.tmp[k])]]
  /\ UNCHANGED <<config, handles, fml, results, writes, lastCall, lastFml, rebound>>

\* *results[idx++] <<= *tmp / (1.0 + *tmp)
PointSaturate ==
  /\ probe.pc = "clamped"
  /\ probe' = [probe EXCEPT
                 !.pc = "written",
                 !.out = [k \in 1..2 |-> Saturate(probe.tmp[k])]]
  /\ UNCHANGED <<config, handles, fml, results, writes, lastCall, lastFml, rebound>>

NextPoint == PointCandidate \/ PointClamp \/ PointSaturate

SpecPoint == InitPoint /\ [][NextPoint]_vars

\* ------------------------------------------------------------- claims
N == Len(abscissaeTagList_)
Pairs == 0..(N - 1)
Recognised == growthModel_ \in RecognisedModels
Evaluated == lastCall \in EvaluateCalls

\* the values at point p of the fields bound by the latest bind_fields(f)
G(p) == fml[lastFml][growthCoefTag_][p]
Rho(p) == fml[lastFml][densityTag_][p]
Eps(p) == fml[lastFml][dissipationTag_][p]
R(i, p) == fml[lastFml][AbscissaTag(i + 1)][p]

\* the output field of pair (i, j), at point p
Out(i, j, p) == results[i * N + j + 1][p]

\* the raw candidate of pair (i, j) at point p, and its efficiency
RawX(i, j, p) ==
  Candidate(Branch(growthModel_), l_, G(p), Rho(p), Eps(p), R(i, p), R(j, p))
Efficiency(i, j, p) == Saturate(Clamp(RawX(i, j, p)))

IsNaN(x) == x.c = "nan"
FLe(a, b) == ~IsNaN(a) /\ ~IsNaN(b) /\ ~FGt(a, b)
FLt(a, b) == FGt(b, a)
\* x is finite and 0 <= x < 1
InUnitInterval(x) == x.c = "fin" /\ FLe(Zero, x) /\ FLt(x, One)

\* C1: after evaluate() with a recognised growth model every value of every
\* output field is finite and lies in [0,1), whatever the input values are.
C1_OutputsInUnitInterval ==
  (Evaluated /\ Recognised) =>
    \A k \in 1..Len(results) : \A p \in Points : InUnitInterval(results[k][p])

\* C2: after evaluate() with a recognised growth model, at every point where
\* density <= 0 or dissipation <= 0 every output field holds exactly 0.
C2_ZeroWhereGuardFails ==
  (Evaluated /\ Recognised) =>
    \A p \in Points :
      (FLe(Rho(p), Zero) \/ FLe(Eps(p), Zero)) =>
        \A i \in Pairs : \A j \in Pairs : Out(i, j, p) = Zero

\* a point with zero density was written 0 while another point of the same
\* output field was written a non-zero efficiency
C2_Witness ==
  /\ Evaluated /\ Recognised
  /\ \E p \in Points : \E q \in Points :
       Rho(p) = Zero /\ Out(0, 0, p) = Zero /\ Out(0, 0, q) # Zero

\* C3: one evaluate() with a recognised model writes exactly the N*N indices
\* 0..N*N-1, each once, in increasing order, index idx while the loops are
\* at (i, j) = (idx div N, idx mod N), and the field at idx holds the
\* efficiency of the pair (i, j); no index >= N*N is written.
C3_RowMajorWrites ==
  (Evaluated /\ Recognised) =>
    /\ Len(abscissae_) = N
    /\ Len(results) = N * N
    /\ writes = [k \in 1..(N * N) |->
                   [idx |-> k - 1, i |-> (k - 1) \div N, j |-> (k - 1) % N]]
    /\ \A i \in Pairs : \A j \in Pairs : \A p \in Points :
         Out(i, j, p) = Efficiency(i, j, p)

\* an evaluate() over more than one pair, with some output not symmetric
\* data: the pairs (0,1) and (1,0) were both written
C3_Witness ==
  /\ Evaluated /\ Recognised
  /\ N >= 2
  /\ Len(writes) = N * N
  /\ writes[2] = [idx |-> 1, i |-> 0, j |-> 1]
  /\ \E p \in Points : Out(0, 1, p) # Zero

\* the larger of two radii, as std::max would pick it
FMax(a, b) == IF FLt(a, b) THEN b ELSE a

C5_ConstantSymmetric ==
  (Evaluated /\ growthModel_ \in {"CONSTANT", "KINETIC"}) =>
    \A p \in Points : \A i \in Pairs : \A j \in Pairs :
      Out(i, j, p) = Out(j, i, p)

\* a CONSTANT or KINETIC evaluate() over two different radii whose outputs
\* depend on the pair
C5_Witness ==
  /\ Evaluated /\ growthModel_ \in {"CONSTANT", "KINETIC"} /\ N >= 2
  /\ \E p \in Points :
       /\ R(0, p) # R(1, p)
       /\ Out(0, 1, p) # Zero /\ Out(0, 1, p) # Out(0, 0, p)

\* C6: for every recognised model, at every point where the raw candidate
\* of a pair is negative the clamp yields 0 and evaluate() writes exactly 0.
C6_NegativeCandidateClamped ==
  (Evaluated /\ Recognised) =>
    \A p \in Points : \A i \in Pairs : \A j \in Pairs :
      FLt(RawX(i, j, p), Zero) =>
        (Clamp(RawX(i, j, p)) = Zero /\ Out(i, j, p) = Zero)

\* negative growth at a point with density > 0 and dissipation > 0 and
\* positive radii gave a negative raw candidate and the output 0
C6_Witness ==
  /\ Evaluated /\ Recognised
  /\ \E p \in Points :
       /\ FLt(G(p), Zero) /\ FGt(Rho(p), Zero) /\ FGt(Eps(p), Zero)
       /\ FGt(R(0, p), Zero)
       /\ FLt(RawX(0, 0, p), Zero)
       /\ Out(0, 0, p) = Zero

\* C8: with a growth-model string that is none of the four, evaluate()
\* writes nothing: every output field keeps the value it held before.
C8_UnknownModelWritesNothing ==
  [][(lastCall' \in EvaluateCalls /\ ~Recognised) =>
       (results' = results /\ writes' = << >>)]_vars

\* evaluate() returned with an unrecognised model and the output still
\* holds the non-zero value it had at construction
C8_Witness ==
  /\ Evaluated /\ ~Recognised
  /\ \A k \in 1..Len(results) : \A p \in Points : results[k][p] = MinusOne

\* C9: evaluate() changes only the output fields: the input fields, the
\* bound pointers and the configuration are unchanged, a repeated
\* evaluate() writes the same outputs again, and the outputs are those of
\* the inputs bound by the latest bind_fields().
C9_EvaluateWritesOnlyOutputs ==
  [][(lastCall' \in EvaluateCalls) =>
       /\ fml' = fml
       /\ handles' = handles
       /\ config' = config
       /\ (lastCall \in EvaluateCalls) => (results' = results)
       /\ Recognised =>
            \A p \in Points : \A i \in Pairs : \A j \in Pairs :
              results'[i * N + j + 1][p] = Efficiency(i, j, p)]_vars

\* a repeated evaluate() after a rebind to a field manager whose inputs
\* differ from those of the other one
C9_Witness ==
  /\ lastCall = "evaluate_again" /\ rebound /\ Recognised
  /\ fml["A"] # fml["B"]
  /\ \E p \in Points : Out(0, 0, p) # Zero

\* C10: after any number of bind_fields() calls abscissae_ has exactly N
\* entries, entry m the field the latest field manager gave for the m-th
\* tag, and evaluate() runs over N*N pairs.
C10_HandlesReplaced ==
  (lastFml # "none") =>
    /\ Len(abscissae_) = N
    /\ \A m \in 1..N : abscissae_[m] = [fm |-> lastFml, tag |-> abscissaeTagList_[m]]
    /\ (Evaluated /\ Recognised) => Len(writes) = N * N

\* a second bind_fields() on already bound pointers, followed by evaluate()
C10_Witness ==
  /\ rebound /\ Evaluated /\ Recognised /\ N >= 2
  /\ Len(abscissae_) = N /\ Len(writes) = N * N

\* the two points of the probe and whether the pair's divisor is positive
ProbeWritten == probe.pc = "written"
ProbeLargerRadius == FMax(probe.ri, probe.rj)

\* C7 as stated: with density > 0 and dissipation > 0 and everything but the
\* growth rate fixed, the efficiency of the larger growth rate is strictly
\* greater.
C7_StrictlyIncreasing ==
  ProbeWritten => FGt(probe.out[2], probe.out[1])

\* C7: with density > 0, dissipation > 0, l >= 0 and, for BULK_DIFFUSION
\* and MONOSURFACE, a positive larger radius, g1 < g2 gives clamped
\* candidates x(g1) <= x(g2); the efficiency of g1 is 0 whenever that of
\* g2 is 0, and it is 0 for every growth rate <= 0.
C7_ClampedCandidateMonotone ==
  (/\ FLe(Zero, probe.l)
   /\ probe.model \in {"BULK_DIFFUSION", "MONOSURFACE"} => FGt(ProbeLargerRadius, Zero))
  =>
  /\ probe.pc = "clamped" => FLe(probe.tmp[1], probe.tmp[2])
  /\ ProbeWritten =>
       /\ probe.out[2] = Zero => probe.out[1] = Zero
       /\ \A k \in 1..2 : FLe(probe.g[k], Zero) => probe.out[k] = Zero

\* two positive growth rates gave two different positive efficiencies, the
\* larger for the larger growth rate
C7_Witness ==
  /\ ProbeWritten
  /\ FGt(probe.l, Zero) /\ FGt(probe.g[1], Zero)
  /\ FGt(probe.out[1], Zero) /\ FGt(probe.out[2], probe.out[1])
====
